---- MODULE Spec2Model ----
(***************************************************************************)
(* State-machine model of the SendPulse MCP HTTP server (src/src/index.ts). *)
(*                                                                         *)
(* JavaScript strings are sequences of one-character strings, so that      *)
(* startsWith / substring are computed as the code computes them.  The     *)
(* JavaScript value `undefined` (a header or field that is not there) is   *)
(* the one-element sequence `undefined`, which no string of characters     *)
(* equals.  Times are milliseconds, as Date.now() gives them.              *)
(***************************************************************************)
EXTENDS Integers, Sequences, FiniteSets, TLC

VARIABLES
    now,         \* Date.now()
    tokenCache,  \* the Map tokenCache: apiId -> [token, expiresAt]
    transports,  \* the session table: sessionId -> transport object
    objs,        \* the transport objects created so far, with their McpServer
    pending,     \* POST /mcp handlers suspended on the OAuth fetch
    calls,       \* tool handlers suspended on the upstream fetch
    ticks,       \* how many clock steps have been taken (bounds the model)
    lastEvent    \* what the last step did: the request, the response, the calls

vars == <<now, tokenCache, transports, objs, pending, calls, ticks, lastEvent>>

----------------------------------------------------------------------------
(* Bounds of the model *)

MaxTransports == 2
MaxPending == 2
MaxCalls == 2
MaxTicks == 2

(* Program constants *)

DefaultLifetime == 3600
SafetyMargin == 60000
GracePeriod == 60000
StartTime == 1000000

----------------------------------------------------------------------------
(* JavaScript values *)

undefined == <<"undefined">>

Truthy(s) == s # undefined /\ s # <<>>

StartsWith(s, p) == Len(s) >= Len(p) /\ SubSeq(s, 1, Len(p)) = p

Substring(s, n) == SubSeq(s, n + 1, Len(s))

BearerPrefix == <<"B", "e", "a", "r", "e", "r", " ">>

----------------------------------------------------------------------------
(* Inputs *)

\* The values randomUUID() may return, in the order the model first uses them
SessionIdSeq == << <<"s", "1">>, <<"s", "2">> >>

SessionIds == {SessionIdSeq[i] : i \in 1..Len(SessionIdSeq)}

\* Property names every JavaScript object inherits from Object.prototype; a
\* client may send one as its session id
InheritedKeys == { <<"c", "o", "n", "s", "t", "r", "u", "c", "t", "o", "r">> }

\* The session id headers a client may send
SessionIdHeaders == SessionIds \cup InheritedKeys \cup {undefined, <<>>}

AuthHeaders ==
    { undefined,
      BearerPrefix \o <<"x">>,
      BearerPrefix,
      <<"B", "a", "s", "i", "c", " ", "x">> }

ApiIds == {<<"a">>, <<"b">>}

ApiSecrets == {<<"k">>}

BodyTokens == {<<"y">>}

AccessTokens == {<<"o">>, <<"p">>}

Bodies == {"initialize", "tools/call", "notification"}

CHANNEL_API_PATHS ==
    [ whatsapp |-> "/whatsapp", telegram |-> "/telegram",
      instagram |-> "/instagram", messenger |-> "/messenger",
      livechat |-> "/live-chat", viber |-> "/viber/chatbots",
      chatbots |-> "/chatbots" ]

\* type Channel = keyof typeof CHANNEL_API_PATHS: the tags the channel
\* parameter of makeSendPulseRequest takes
Channels == DOMAIN CHANNEL_API_PATHS

\* The channel tags a tools/call of send_message may name: those of
\* CHANNEL_API_PATHS and one that is none of them
ChannelTags == Channels \cup {"sms"}

Tools == {"get_account_info", "get_bots_list", "get_dialogs", "send_message"}

\* {}: an object without fields
NoFields == [x \in {} |-> ""]

\* The arguments a tool may be invoked with
ToolArgs(tool) ==
    IF tool = "get_dialogs" THEN { NoFields, [order |-> "asc"] }
    ELSE IF tool = "send_message"
    THEN [channel : ChannelTags, contact_id : {"c1"}, text : {"hi"}]
    ELSE { NoFields }

\* The params of a tools/call body: the name of a tool and its arguments
Invocations ==
    UNION { [tool : {tool}, args : ToolArgs(tool)] : tool \in Tools }

\* What a body that is no tools/call gives for them
NoCall == [tool |-> "none", args |-> NoFields]

\* tools/call of get_account_info
AccountInfo == [tool |-> "get_account_info", args |-> NoFields]

\* POST requests without a session id whose body is an initialize request,
\* with every combination of the three credential channels
InitRequests ==
    [ sessionId : {undefined},
      body : {"initialize"},
      authorization : AuthHeaders,
      apiId : ApiIds \cup {undefined},
      apiSecret : ApiSecrets \cup {undefined},
      bodyAuth : BodyTokens \cup {undefined},
      call : {NoCall} ]

\* The other POST requests: any session id header (an empty one too) and any
\* body without credentials, a tools/call body with every tool and its
\* arguments, and initialize bodies that carry a session id header together
\* with every credential
OtherRequests ==
    ( { r \in [ sessionId : SessionIdHeaders,
                body : Bodies,
                authorization : {undefined},
                apiId : {undefined},
                apiSecret : {undefined},
                bodyAuth : {undefined},
                call : Invocations \cup {NoCall} ] :
          r.body = "tools/call" <=> r.call # NoCall }
      \cup
      [ sessionId : SessionIds \cup InheritedKeys \cup {<<>>},
        body : {"initialize"},
        authorization : {BearerPrefix \o <<"x">>},
        apiId : {<<"a">>},
        apiSecret : ApiSecrets,
        bodyAuth : BodyTokens,
        call : {NoCall} ] ) \ InitRequests

Requests == InitRequests \cup OtherRequests

\* tools/call requests on a session id
ToolCalls ==
    [ sessionId : SessionIds,
      body : {"tools/call"},
      authorization : {undefined},
      apiId : {undefined},
      apiSecret : {undefined},
      bodyAuth : {undefined},
      call : Invocations ]

\* Those of get_account_info
AccountCalls == {r \in ToolCalls : r.call = AccountInfo}

\* The POST requests of the credential specification: initialize requests
\* with every combination of the credential channels for one API id
AuthPosts == {r \in InitRequests : r.apiId # <<"b">>}

\* The POST requests of the session-table specification: the requests that
\* are not plain initialize requests, with get_account_info for the tool
\* calls, and initialize requests with no credential, with a bearer header,
\* with an API id and secret
SessionPosts ==
    {r \in OtherRequests : r.call \in {NoCall, AccountInfo}}
    \cup { r \in InitRequests :
             /\ r.bodyAuth = undefined
             /\ r.authorization \in {undefined, BearerPrefix \o <<"x">>}
             /\ r.apiId \in {undefined, <<"a">>}
             /\ (r.apiId = undefined <=> r.apiSecret = undefined)
             /\ (r.authorization = undefined \/ r.apiId = undefined) }

NoReq ==
    [ sessionId |-> undefined, body |-> "none", authorization |-> undefined,
      apiId |-> undefined, apiSecret |-> undefined, bodyAuth |-> undefined,
      call |-> NoCall ]

\* What the OAuth endpoint may answer: the fetch throws, or an HTTP response
\* with a status and a JSON body whose fields may be missing.
TokenDatas ==
    [ access_token : AccessTokens \cup {<<>>}, expires_in : {0, 30, 3600} ]
    \cup [ access_token : AccessTokens ]
    \cup [ expires_in : {3600} ]

OAuthResponses ==
    { [ thrown |-> TRUE, ok |-> FALSE, tokenData |-> [ expires_in |-> 3600 ] ] }
    \cup [ thrown : {FALSE}, ok : BOOLEAN, tokenData : TokenDatas ]

\* The answers of the OAuth endpoint in the session-table specification
SessionOAuthResponses ==
    { r \in OAuthResponses :
        \/ r.thrown
        \/ r.ok /\ r.tokenData = [access_token |-> <<"o">>, expires_in |-> 3600] }

TickSteps == {60000, 3540000}

----------------------------------------------------------------------------
(* getSendPulseOAuthToken *)

\* `null`, the failure result of getSendPulseOAuthToken
NullToken == [token |-> undefined, expiresAt |-> 0]

\* Mutant: the comparison with the clock is reversed
CachedTokenValidReversed(cache, apiId, t) ==
    apiId \in DOMAIN cache /\ cache[apiId].expiresAt < t

\* Mutant: the cache is never consulted
CachedTokenNeverValid(cache, apiId, t) == FALSE

\* Mutant: a token is still served at the instant it expires
CachedTokenValidAtExpiry(cache, apiId, t) ==
    apiId \in DOMAIN cache /\ cache[apiId].expiresAt >= t

\* const cachedToken = tokenCache.get(cacheKey);
\* if (cachedToken && cachedToken.expiresAt > Date.now())
CachedTokenValid(cache, apiId, t) ==
    apiId \in DOMAIN cache /\ cache[apiId].expiresAt > t

\* tokenData.access_token, `undefined` when the field is missing
AccessTokenOf(tokenData) ==
    IF "access_token" \in DOMAIN tokenData THEN tokenData.access_token
    ELSE undefined

\* const expiresIn = (tokenData.expires_in || 3600) * 1000;
ExpiresInMs(tokenData) ==
    ( IF "expires_in" \in DOMAIN tokenData /\ tokenData.expires_in # 0
      THEN tokenData.expires_in
      ELSE DefaultLifetime ) * 1000

\* Mutant: the safety margin is not subtracted
ExpiresAtNoMargin(tokenData, t) == t + ExpiresInMs(tokenData)

\* expiresAt: Date.now() + expiresIn - 60000
ExpiresAt(tokenData, t) == t + ExpiresInMs(tokenData) - SafetyMargin

\* Whether the exchange fails: the fetch (or response.json()) throws, the
\* status is not a success, or the body has no access_token.
ExchangeFails(resp) ==
    \/ resp.thrown
    \/ ~resp.ok
    \/ ~Truthy(AccessTokenOf(resp.tokenData))

\* The Token the exchange yields at time t (null on failure)
ExchangedToken(resp, t) ==
    IF ExchangeFails(resp) THEN NullToken
    ELSE [ token |-> AccessTokenOf(resp.tokenData),
           expiresAt |-> ExpiresAt(resp.tokenData, t) ]

\* Mutant: an exchange does not overwrite the entry another exchange wrote
CacheKeepsFirstWriter(cache, apiId, resp, t) ==
    IF ExchangeFails(resp) \/ apiId \in DOMAIN cache THEN cache
    ELSE (apiId :> ExchangedToken(resp, t)) @@ cache

\* Mutant: a failed exchange evicts the entry of the API id
CacheEvictsOnFailure(cache, apiId, resp, t) ==
    IF ExchangeFails(resp)
    THEN [id \in DOMAIN cache \ {apiId} |-> cache[id]]
    ELSE (apiId :> ExchangedToken(resp, t)) @@ cache

\* tokenCache.set(cacheKey, newToken), only after a successful exchange
CacheAfterExchange(cache, apiId, resp, t) ==
    IF ExchangeFails(resp) THEN cache
    ELSE (apiId :> ExchangedToken(resp, t)) @@ cache

----------------------------------------------------------------------------
(* app.post('/mcp'): routing and credential resolution *)

\* transports[sessionId] is truthy.  The table is a plain object ({}), so
\* the lookup also finds what every object inherits from Object.prototype.
Has(table, sessionId) ==
    sessionId \in DOMAIN table \/ sessionId \in InheritedKeys

\* if (sessionId && transports[sessionId]) ... else if (!sessionId &&
\* isInitializeRequest(req.body)) ... else 400
Route(sessionId, table, body) ==
    IF Truthy(sessionId) /\ Has(table, sessionId) THEN "existing"
    ELSE IF ~Truthy(sessionId) /\ body = "initialize" THEN "init"
    ELSE "bad"

\* Mutant: the scheme of the Authorization header is not checked
BearerTokenAnyScheme(authHeader) ==
    IF ~Truthy(authHeader) THEN undefined
    ELSE IF StartsWith(authHeader, BearerPrefix) THEN Substring(authHeader, 7)
    ELSE authHeader

\* if (authHeader && authHeader.startsWith('Bearer '))
\*     authToken = authHeader.substring(7);
BearerToken(authHeader) ==
    IF Truthy(authHeader) /\ StartsWith(authHeader, BearerPrefix)
    THEN Substring(authHeader, 7)
    ELSE undefined

\* Mutant: the API id and secret are skipped whenever the header gave a
\* token, an empty one too
WantsOAuthUnlessHeader(authToken, apiId, apiSecret) ==
    authToken = undefined /\ Truthy(apiId) /\ Truthy(apiSecret)

\* Mutant: the API id and secret are tried even when a bearer token was found
WantsOAuthIgnoringBearer(authToken, apiId, apiSecret) ==
    Truthy(apiId) /\ Truthy(apiSecret)

\* if (!authToken && apiId && apiSecret)
WantsOAuth(authToken, apiId, apiSecret) ==
    ~Truthy(authToken) /\ Truthy(apiId) /\ Truthy(apiSecret)

\* Mutant: no fallback to the token of the request body
WithoutBodyAuth(authToken, bodyAuth) == authToken

\* if (!authToken) { const bodyAuth = ...; if (bodyAuth) authToken = bodyAuth }
WithBodyAuth(authToken, bodyAuth) ==
    IF ~Truthy(authToken) /\ Truthy(bodyAuth) THEN bodyAuth ELSE authToken

\* Which channel the token that WithBodyAuth returns came from
SourceAfterBody(authToken, source) ==
    IF ~Truthy(authToken) THEN "body" ELSE source

----------------------------------------------------------------------------
(* Transport objects and the session table *)

\* A transport and the server connected to it.  authToken is the argument of
\* createSendPulseServer, which the tool handlers close over.  For a token of
\* the OAuth channel, expiresAt is the expiresAt of its Token and boundAt the
\* time the server was created (both 0 for the other channels).
NewTransport(authToken, source, expiresAt, t) ==
    [ sessionId |-> undefined, authToken |-> authToken, source |-> source,
      expiresAt |-> IF source = "oauth" THEN expiresAt ELSE 0,
      boundAt |-> IF source = "oauth" THEN t ELSE 0,
      timer |-> "none", due |-> 0 ]

\* onsessioninitialized: transports[newSessionId] = transport
Register(table, sid, t) == (sid :> t) @@ table

\* delete transports[sessionId]
Unregister(table, sid) == [s \in DOMAIN table \ {sid} |-> table[s]]

\* Mutant: the timer removes whatever transport the identifier maps to
CleanupIgnoringIdentity(table, sid, t) == sid \in DOMAIN table

\* if (transports[sessionId] === transport)
CleanupApplies(table, sid, t) == sid \in DOMAIN table /\ table[sid] = t

----------------------------------------------------------------------------
(* What a step did *)

NoUpstream == [sent |-> FALSE, authorization |-> undefined, transport |-> 0]

\* op: the handler or callback that ran; req: its request; status, code: the
\* HTTP status and JSON-RPC error code it answered (0: none of its own);
\* oauthCalled: it issued the OAuth fetch; cacheRead: it looked the token
\* cache up; exchange: how an OAuth fetch it resumed from ended; created: it
\* constructed a transport and a server; boundToken: the token it gave
\* createSendPulseServer; transport: the transport it routed to, registered or
\* acted on; upstream: the upstream request a tool sent; thrown: the handler
\* ended by throwing, without an answer of its own.
Event(op, req, status, code, oauthCalled, cacheRead, exchange, created, boundToken, transport, upstream) ==
    [ op |-> op, req |-> req, status |-> status, code |-> code,
      oauthCalled |-> oauthCalled, cacheRead |-> cacheRead,
      exchange |-> exchange, created |-> created, boundToken |-> boundToken,
      transport |-> transport, upstream |-> upstream, thrown |-> FALSE ]

\* A step that answers no request and calls nothing
Quiet(op, t) ==
    Event(op, NoReq, 0, 0, FALSE, FALSE, "none", FALSE, undefined, t,
          NoUpstream)

\* A request answered with an error, or handed to a transport of the table
Answer(op, req, status, code, t, upstream) ==
    Event(op, req, status, code, FALSE, FALSE, "none", FALSE, undefined, t,
          upstream)

\* transport.handleRequest is called on a value that is no transport:
\* TypeError, which nothing in the handler catches
Throws(op, req) ==
    [Answer(op, req, 0, 0, 0, NoUpstream) EXCEPT !.thrown = TRUE]

Init ==
    /\ now = StartTime
    /\ tokenCache = << >>
    /\ transports = << >>
    /\ objs = << >>
    /\ pending = << >>
    /\ calls = << >>
    /\ ticks = 0
    /\ lastEvent = Quiet("none", 0)

----------------------------------------------------------------------------
(* makeSendPulseRequest and the tools of createSendPulseServer *)

\* The caller of a suspended fetch that is no tool handler
DirectCall == "makeSendPulseRequest"

SENDPULSE_API_BASE == "https://api.sendpulse.com"

\* `${basePath}` with basePath = CHANNEL_API_PATHS[channel]: a tag that is no
\* key gives undefined, which the template prints as "undefined"
BasePath(channel) ==
    IF channel \in DOMAIN CHANNEL_API_PATHS THEN CHANNEL_API_PATHS[channel]
    ELSE "undefined"

\* const url = `${BASE}${basePath}${path}${options.params ? `?${params}` : ''}`
\* (a URLSearchParams object is truthy even when it is empty)
RequestUrl(channel, path, options) ==
    <<SENDPULSE_API_BASE, BasePath(channel), path>>
    \o ( IF "params" \in DOMAIN options THEN <<"?", options.params>>
         ELSE << >> )

\* JSON.stringify(value): the text of the value
Stringify(value) == [json |-> value]

\* body: undefined, a request without a body
NoBody == [absent |-> TRUE]

\* JSON.stringify(value, null, 2): the same text, indented
StringifyIndented(value) == [json |-> value, indent |-> 2]

\* The arguments of fetch in makeSendPulseRequest (lines 75-85)
FetchRequest(channel, path, token, options) ==
    [ url |-> RequestUrl(channel, path, options),
      method |-> IF "method" \in DOMAIN options THEN options.method
                 ELSE "GET",
      authorization |-> BearerPrefix \o token,
      contentType |-> "application/json",
      body |-> IF "body" \in DOMAIN options THEN Stringify(options.body)
               ELSE NoBody ]

\* The response bodies of the upstream API: a JSON text, a text that is no
\* JSON (response.json() throws), and a body whose reading fails
\* (response.text() and response.json() throw)
JsonBody ==
    [ readable |-> TRUE, text |-> "{\"data\":\"d\"}", isJson |-> TRUE,
      parsed |-> [data |-> "d"] ]

HtmlBody ==
    [ readable |-> TRUE, text |-> "<html>", isJson |-> FALSE,
      parsed |-> [data |-> ""] ]

BrokenBody ==
    [ readable |-> FALSE, text |-> "", isJson |-> FALSE,
      parsed |-> [data |-> ""] ]

\* What the upstream fetch may do: throw, or answer with a status and a body
UpstreamResponses ==
    { [thrown |-> TRUE, status |-> 0, body |-> BrokenBody] }
    \cup [ thrown : {FALSE}, status : {200, 404, 500},
           body : {JsonBody, HtmlBody, BrokenBody} ]

\* response.ok
ResponseOk(resp) == resp.status >= 200 /\ resp.status <= 299

\* The result of the catch block of makeSendPulseRequest
UnexpectedError ==
    [success |-> FALSE, error |-> <<"An unexpected error occurred.">>]

\* `${response.status}`: the decimal text of the status
StatusText(status) ==
    CASE status = 200 -> "200"
      [] status = 404 -> "404"
      [] status = 500 -> "500"

\* Mutant: a non-success status is reported without the raw body
ApiErrorWithoutDetails(resp) ==
    [ success |-> FALSE,
      error |-> <<"API request failed with status ", StatusText(resp.status)>> ]

\* { success: false, error: `API request failed with status ${status}`,
\*   details: errorBody }
ApiError(resp) ==
    [ success |-> FALSE,
      error |-> <<"API request failed with status ", StatusText(resp.status)>>,
      details |-> resp.body.text ]

\* What makeSendPulseRequest returns once its fetch has ended with resp
\* (lines 87-96)
ProxyResult(resp) ==
    IF resp.thrown THEN UnexpectedError
    ELSE IF ~ResponseOk(resp)
    THEN IF ~resp.body.readable THEN UnexpectedError ELSE ApiError(resp)
    ELSE IF ~resp.body.readable \/ ~resp.body.isJson THEN UnexpectedError
    ELSE resp.body.parsed

\* new URLSearchParams() with every argument appended, lines 147-152
DialogParams(args) ==
    IF "order" \in DOMAIN args THEN << <<"order", args.order>> >> ELSE << >>

\* Mutant: the switch has a case for a tag that CHANNEL_API_PATHS lacks
SendChannelsWithSms ==
    {"whatsapp", "telegram", "instagram", "messenger", "livechat", "viber",
     "sms"}

\* The channels of the switch in send_message
SendChannels ==
    {"whatsapp", "telegram", "instagram", "messenger", "livechat", "viber"}

\* requestBody of send_message, lines 175-191
RequestBody(channel, contact_id, text) ==
    IF channel = "whatsapp"
    THEN [ contact_id |-> contact_id,
           message |-> [type |-> "text", text |-> [body |-> text]] ]
    ELSE IF channel = "telegram"
    THEN [ contact_id |-> contact_id,
           message |-> [type |-> "text", text |-> text] ]
    ELSE IF channel = "instagram"
    THEN [ contact_id |-> contact_id,
           messages |-> << [type |-> "text", message |-> [text |-> text]] >> ]
    ELSE IF channel = "messenger"
    THEN [ contact_id |-> contact_id,
           message |-> [ type |-> "RESPONSE", tag |-> "ACCOUNT_UPDATE",
                         content_type |-> "message", text |-> text ] ]
    ELSE [ contact_id |-> contact_id,
           messages |-> << [type |-> "text", text |-> [text |-> text]] >> ]

\* `Error: Channel '${channel}' is not supported.`
NotSupported(channel) ==
    [text |-> <<"Error: Channel '", channel, "' is not supported.">>]

\* No error is thrown
NoError == [thrown |-> FALSE, message |-> ""]

\* What may be thrown inside the try block of a handler
Faults == {NoError, [thrown |-> TRUE, message |-> "boom"]}

\* Mutant: the error is thrown on, out of the handler
Rethrown(tool, e) == [text |-> <<"unhandled", e.message>>]

\* `Error executing ${tool}: ${e.message}`
ErrorText(tool, e) == [text |-> <<"Error executing ", tool, ": ", e.message>>]

\* The channel, path and options a tool gives makeSendPulseRequest
ProxyCall(tool, args) ==
    IF tool = "get_account_info"
    THEN [channel |-> "chatbots", path |-> "/account", options |-> NoFields]
    ELSE IF tool = "get_bots_list"
    THEN [channel |-> "chatbots", path |-> "/bots", options |-> NoFields]
    ELSE IF tool = "get_dialogs"
    THEN [ channel |-> "chatbots", path |-> "/dialogs",
           options |-> [params |-> DialogParams(args)] ]
    ELSE [ channel |-> args.channel, path |-> "/contacts/send",
           options |-> [ method |-> "POST",
                         body |-> RequestBody(args.channel, args.contact_id,
                                              args.text) ] ]

\* Mutant: send_message hands every channel tag to makeSendPulseRequest
StopsBeforeFetchNoSwitch(tool, args, fault) == fault.thrown

\* Whether the handler returns before it calls makeSendPulseRequest: an error
\* is thrown in its try block, or send_message takes the default branch
StopsBeforeFetch(tool, args, fault) ==
    \/ fault.thrown
    \/ tool = "send_message" /\ args.channel \notin SendChannels

\* The text the handler then returns
EarlyText(tool, args, fault) ==
    IF fault.thrown THEN ErrorText(tool, fault)
    ELSE NotSupported(args.channel)

\* The text the handler returns after makeSendPulseRequest has returned
FinalText(tool, resp, fault) ==
    IF fault.thrown THEN ErrorText(tool, fault)
    ELSE StringifyIndented(ProxyResult(resp))

NoFetch == [url |-> << >>]

NoText == [text |-> << >>]

\* A step of a tool handler: the request that invoked it (NoReq: it resumes),
\* the tool and its arguments, the fetch it issued (NoFetch: none), the text
\* it returned (NoText: none yet)
ToolEvent(op, req, t, tool, args, fetch, text, upstream) ==
    [tool |-> tool, args |-> args, fetch |-> fetch, text |-> text]
    @@ Answer(op, req, 0, 0, t, upstream)

----------------------------------------------------------------------------
(* The MCP SDK, as index.ts uses it *)

\* A tool handler's call of makeSendPulseRequest(..., authToken, ...):
\* headers: { "Authorization": `Bearer ${token}` }
UpstreamRequest(t, token) ==
    [sent |-> TRUE, authorization |-> BearerPrefix \o token, transport |-> t]

\* Whether onclose has run for the transport
Closed(obj) == obj.timer # "none"

\* Mutant: one server is shared, so a tool uses the token of the session
\* initialized last
HandlerTokenLatest(t) == objs[Len(objs)].authToken

\* The authToken the tool handlers of the server of transport t close over:
\* the argument of createSendPulseServer(authToken), line 288
HandlerToken(t) == objs[t].authToken

\* transport.handleRequest(req, res, req.body) on a transport of the session
\* table: whether the SDK calls the handler of the tool the body names.  The
\* SDK may refuse any request (accept), whatever the state of the transport.
Dispatched(req, accept) ==
    req.body = "tools/call" /\ req.call.tool \in Tools /\ accept

\* The handler of the tool req names, on the server of transport t, from its
\* first line up to its await of fetch inside makeSendPulseRequest, or to its
\* end when it returns before (fault: what its try block throws before the
\* fetch, if anything).  A handler that awaits stays in calls.
ToolHandler(req, t, fault) ==
    LET tool == req.call.tool
        args == req.call.args
        c == ProxyCall(tool, args)
        fetch == FetchRequest(c.channel, c.path, HandlerToken(t), c.options)
    IN  IF StopsBeforeFetch(tool, args, fault)
        THEN /\ lastEvent' = ToolEvent("tool", req, t, tool, args, NoFetch,
                                       EarlyText(tool, args, fault),
                                       NoUpstream)
             /\ UNCHANGED calls
        ELSE /\ Len(calls) < MaxCalls
             /\ calls' = Append(calls, [ transport |-> t, tool |-> tool,
                                         args |-> args, fetch |-> fetch ])
             /\ lastEvent' = ToolEvent("tool", req, t, tool, args, fetch,
                                       NoText,
                                       UpstreamRequest(t, HandlerToken(t)))

\* Mutant: onclose schedules no cleanup
OnCloseWithoutTimer(obj, t) == [obj EXCEPT !.timer = "closed"]

\* transport.onclose: if (transport.sessionId) setTimeout(cleanup, 60000)
OnClose(obj, t) ==
    IF Truthy(obj.sessionId)
    THEN [obj EXCEPT !.timer = "pending", !.due = t + GracePeriod]
    ELSE [obj EXCEPT !.timer = "closed"]

----------------------------------------------------------------------------
(* app.post('/mcp') *)

\* sessionIdGenerator: () => randomUUID().  Any value may come out, one in use
\* too; of the values never used yet, which are interchangeable, the model
\* takes the first.
UsedIds == {objs[t].sessionId : t \in 1..Len(objs)}

Generated(sid) ==
    \/ sid \in UsedIds
    \/ \E i \in 1..Len(SessionIdSeq) :
           /\ sid = SessionIdSeq[i]
           /\ \A j \in 1..Len(SessionIdSeq) :
                  SessionIdSeq[j] \notin UsedIds => i <= j

\* From `if (!authToken) { bodyAuth }` to transport.handleRequest, lines
\* 253-296: the 401, or a new transport and server, which the SDK registers
\* under the session id it generates when it accepts the initialize request.
FinishInit(op, req, authToken, source, expiresAt, oauthCalled, cacheRead, exchange, accept, sid) ==
    LET tok == WithBodyAuth(authToken, req.bodyAuth)
        src == SourceAfterBody(authToken, source)
        t == Len(objs) + 1
        obj == NewTransport(tok, src, expiresAt, now)
    IN  IF ~Truthy(tok)
        THEN /\ lastEvent' = Event(op, req, 401, -32001, oauthCalled,
                                   cacheRead, exchange, FALSE, undefined, 0,
                                   NoUpstream)
             /\ UNCHANGED <<transports, objs>>
        ELSE IF accept
        THEN /\ Generated(sid)
             /\ objs' = Append(objs, [obj EXCEPT !.sessionId = sid])
             /\ transports' = Register(transports, sid, t)
             /\ lastEvent' = Event(op, req, 200, 0, oauthCalled, cacheRead,
                                   exchange, TRUE, tok, t, NoUpstream)
        ELSE \* the SDK rejects the request: nothing keeps the new transport
             /\ UNCHANGED <<transports, objs>>
             /\ lastEvent' = Event(op, req, 0, 0, oauthCalled, cacheRead,
                                   exchange, TRUE, tok, 0, NoUpstream)

\* What the handler suspended on the OAuth fetch still reads of its request
Suspended(req) == [apiId |-> req.apiId, bodyAuth |-> req.bodyAuth]

\* The request of a suspended handler, as far as the handler still reads it
Resumed(p) ==
    [NoReq EXCEPT !.body = "initialize", !.apiId = p.apiId,
                  !.bodyAuth = p.bodyAuth]

\* app.post('/mcp'), from its first line to its end or to its await of the
\* OAuth fetch; a tools/call the SDK hands to a tool runs the handler of the
\* tool inside handleRequest (line 296).
PostMcp(req, accept, sid, fault) ==
    LET route == Route(req.sessionId, transports, req.body)
        bearer == BearerToken(req.authorization)
    IN  /\ UNCHANGED <<now, ticks>>
        /\ IF route = "existing"
           THEN /\ IF req.sessionId \notin DOMAIN transports
                   THEN /\ lastEvent' = Throws("post", req)
                        /\ UNCHANGED calls
                   ELSE IF Dispatched(req, accept)
                   THEN ToolHandler(req, transports[req.sessionId], fault)
                   ELSE /\ lastEvent' = Answer("post", req, 0, 0,
                                               transports[req.sessionId],
                                               NoUpstream)
                        /\ UNCHANGED calls
                /\ UNCHANGED <<tokenCache, transports, objs, pending>>
           ELSE IF route = "bad"
           THEN /\ lastEvent' = Answer("post", req, 400, -32000, 0,
                                       NoUpstream)
                /\ UNCHANGED <<tokenCache, transports, objs, pending, calls>>
           ELSE /\ Len(objs) + Len(pending) < MaxTransports
                /\ UNCHANGED calls
                /\ IF ~WantsOAuth(bearer, req.apiId, req.apiSecret)
                   THEN /\ FinishInit("post", req, bearer, "bearer", 0,
                                      FALSE, FALSE, "none", accept, sid)
                        /\ UNCHANGED <<tokenCache, pending>>
                   ELSE IF CachedTokenValid(tokenCache, req.apiId, now)
                   THEN /\ FinishInit("post", req,
                                      tokenCache[req.apiId].token, "oauth",
                                      tokenCache[req.apiId].expiresAt,
                                      FALSE, TRUE, "none", accept, sid)
                        /\ UNCHANGED <<tokenCache, pending>>
                   ELSE /\ Len(pending) < MaxPending
                        /\ pending' = Append(pending, Suspended(req))
                        /\ lastEvent' = Event("post", req, 0, 0, TRUE, TRUE,
                                              "none", FALSE, undefined, 0,
                                              NoUpstream)
                        /\ UNCHANGED <<tokenCache, transports, objs>>

\* The OAuth fetch of the i-th suspended handler completes with resp; the
\* handler runs from line 46 to its end.
OAuthReturn(i, resp, accept, sid) ==
    /\ i \in 1..Len(pending)
    /\ LET req == Resumed(pending[i])
           token == ExchangedToken(resp, now)
       IN  /\ tokenCache' =
                  CacheAfterExchange(tokenCache, req.apiId, resp, now)
           /\ FinishInit("oauthReturn", req, token.token, "oauth",
                         token.expiresAt, FALSE, FALSE,
                         IF ExchangeFails(resp) THEN "failed" ELSE "ok",
                         accept, sid)
    /\ pending' = SubSeq(pending, 1, i - 1)
                      \o SubSeq(pending, i + 1, Len(pending))
    /\ UNCHANGED <<now, ticks, calls>>

----------------------------------------------------------------------------
(* The upstream fetch returns *)

\* Mutant: the fetches are awaited in the order they were issued, so one
\* that hangs holds every later one back
UpstreamReturnInOrder(i, resp, fault) ==
    /\ i = 1
    /\ i \in 1..Len(calls)
    /\ calls[i].tool \in Tools
    /\ lastEvent' = ToolEvent("toolReturn", NoReq, calls[i].transport,
                              calls[i].tool, calls[i].args, calls[i].fetch,
                              FinalText(calls[i].tool, resp, fault),
                              NoUpstream)
    /\ calls' = SubSeq(calls, 1, i - 1) \o SubSeq(calls, i + 1, Len(calls))
    /\ UNCHANGED <<now, ticks, tokenCache, transports, objs, pending>>

\* The fetch of the i-th suspended tool handler ends with resp; the handler
\* runs to its end
UpstreamReturn(i, resp, fault) ==
    /\ i \in 1..Len(calls)
    /\ calls[i].tool \in Tools
    /\ lastEvent' = ToolEvent("toolReturn", NoReq, calls[i].transport,
                              calls[i].tool, calls[i].args, calls[i].fetch,
                              FinalText(calls[i].tool, resp, fault),
                              NoUpstream)
    /\ calls' = SubSeq(calls, 1, i - 1) \o SubSeq(calls, i + 1, Len(calls))
    /\ UNCHANGED <<now, ticks, tokenCache, transports, objs, pending>>

\* The paths and options makeSendPulseRequest may be called with
ProxyPaths == {"/account", "/contacts/send"}

ProxyOptions ==
    { NoFields, [params |-> << <<"order", "asc">> >>],
      [method |-> "POST", body |-> [contact_id |-> "c1"]] }

\* makeSendPulseRequest(channel, path, token, options) up to its await of
\* fetch (lines 74-85)
MakeSendPulseRequest(channel, path, token, options) ==
    /\ Len(calls) < MaxCalls
    /\ LET fetch == FetchRequest(channel, path, token, options)
           args == [channel |-> channel, path |-> path, options |-> options]
       IN  /\ calls' = Append(calls, [ transport |-> 0, tool |-> DirectCall,
                                       args |-> args, fetch |-> fetch ])
           /\ lastEvent' = ToolEvent("proxy", NoReq, 0, DirectCall, args,
                                     fetch, NoText, NoUpstream)
    /\ UNCHANGED <<now, ticks, tokenCache, transports, objs, pending>>

\* makeSendPulseRequest from the end of its fetch to its return (lines
\* 87-96); the event's text is the value returned
ProxyReturn(i, resp) ==
    /\ i \in 1..Len(calls)
    /\ calls[i].tool = DirectCall
    /\ lastEvent' = ToolEvent("proxyReturn", NoReq, 0, DirectCall,
                              calls[i].args, calls[i].fetch,
                              ProxyResult(resp), NoUpstream)
    /\ calls' = SubSeq(calls, 1, i - 1) \o SubSeq(calls, i + 1, Len(calls))
    /\ UNCHANGED <<now, ticks, tokenCache, transports, objs, pending>>

----------------------------------------------------------------------------
(* app.get('/mcp'), app.delete('/mcp'): handleSessionRequest *)

SessionRequest(method, sessionId) ==
    LET req == [NoReq EXCEPT !.sessionId = sessionId, !.body = method]
    IN  /\ UNCHANGED <<now, ticks, tokenCache, transports, pending, calls>>
        /\ IF ~Truthy(sessionId) \/ ~Has(transports, sessionId)
           THEN /\ lastEvent' = Answer(method, req, 400, 0, 0, NoUpstream)
                /\ UNCHANGED objs
           ELSE IF sessionId \notin DOMAIN transports
           THEN /\ lastEvent' = Throws(method, req)
                /\ UNCHANGED objs
           ELSE LET t == transports[sessionId]
                IN  /\ lastEvent' = Answer(method, req, 0, 0, t, NoUpstream)
                    /\ IF method = "DELETE" /\ ~Closed(objs[t])
                       THEN objs' = [objs EXCEPT ![t] = OnClose(@, now)]
                       ELSE UNCHANGED objs

----------------------------------------------------------------------------
(* Closure, the cleanup timer, the clock *)

\* Mutant: closure removes the session at once, with no grace period
TransportCloseAtOnce(t) ==
    /\ t \in 1..Len(objs)
    /\ ~Closed(objs[t])
    /\ objs' = [objs EXCEPT ![t] = OnClose(@, now)]
    /\ transports' =
           IF CleanupApplies(transports, objs[t].sessionId, t)
           THEN Unregister(transports, objs[t].sessionId)
           ELSE transports
    /\ lastEvent' = Quiet("close", t)
    /\ UNCHANGED <<now, ticks, tokenCache, pending, calls>>

\* A transport closes for another reason than a DELETE request
TransportClose(t) ==
    /\ t \in 1..Len(objs)
    /\ ~Closed(objs[t])
    /\ objs' = [objs EXCEPT ![t] = OnClose(@, now)]
    /\ lastEvent' = Quiet("close", t)
    /\ UNCHANGED <<now, ticks, tokenCache, transports, pending, calls>>

\* The setTimeout callback of onclose (lines 278-284)
CleanupTimer(t) ==
    /\ t \in 1..Len(objs)
    /\ objs[t].timer = "pending"
    /\ now >= objs[t].due
    /\ objs' = [objs EXCEPT ![t].timer = "fired", ![t].due = 0]
    /\ transports' =
           IF CleanupApplies(transports, objs[t].sessionId, t)
           THEN Unregister(transports, objs[t].sessionId)
           ELSE transports
    /\ lastEvent' = Quiet("timer", t)
    /\ UNCHANGED <<now, ticks, tokenCache, pending, calls>>

\* Time passes until the cleanup timer of transport t is due
Elapse(t) ==
    /\ t \in 1..Len(objs)
    /\ objs[t].timer = "pending"
    /\ now < objs[t].due
    /\ now' = objs[t].due
    /\ lastEvent' = Quiet("tick", 0)
    /\ UNCHANGED <<ticks, tokenCache, transports, objs, pending, calls>>

Tick(d) ==
    /\ ticks < MaxTicks
    /\ now' = now + d
    /\ ticks' = ticks + 1
    /\ lastEvent' = Quiet("tick", 0)
    /\ UNCHANGED <<tokenCache, transports, objs, pending, calls>>

\* The server: a request arrives, an OAuth fetch or an upstream fetch
\* completes, a transport closes, a cleanup timer fires, or time passes.
Next ==
    \/ \E req \in Requests, accept \in BOOLEAN, sid \in SessionIds,
          fault \in Faults :
           PostMcp(req, accept, sid, fault)
    \/ \E i \in 1..MaxPending, resp \in OAuthResponses,
          accept \in BOOLEAN, sid \in SessionIds :
           OAuthReturn(i, resp, accept, sid)
    \/ \E method \in {"GET", "DELETE"},
          sessionId \in SessionIdHeaders :
           SessionRequest(method, sessionId)
    \/ \E t \in 1..MaxTransports : TransportClose(t)
    \/ \E t \in 1..MaxTransports : CleanupTimer(t)
    \/ \E d \in TickSteps : Tick(d)
    \/ \E t \in 1..MaxTransports : Elapse(t)
    \/ \E i \in 1..MaxCalls, resp \in UpstreamResponses, fault \in Faults :
           UpstreamReturn(i, resp, fault)

Spec == Init /\ [][Next]_vars

\* The request does not start an OAuth exchange while another is in flight
OneExchange(req) ==
    ( /\ Route(req.sessionId, transports, req.body) = "init"
      /\ WantsOAuth(BearerToken(req.authorization), req.apiId, req.apiSecret)
      /\ ~CachedTokenValid(tokenCache, req.apiId, now) )
    => pending = << >>

\* No tool handler is suspended on its fetch
NoCallInFlight == calls = << >>

\* The request does not start an upstream call while another is in flight
OneCall(req, accept, fault) ==
    ( /\ Route(req.sessionId, transports, req.body) = "existing"
      /\ Dispatched(req, accept)
      /\ ~StopsBeforeFetch(req.call.tool, req.call.args, fault) )
    => NoCallInFlight

\* An answer of the upstream API with a JSON body
GoodAnswer == [thrown |-> FALSE, status |-> 200, body |-> JsonBody]

\* Credential resolution and the token cache: initialize requests with every
\* combination of credentials, every answer of the OAuth endpoint, one
\* exchange at a time, and the clock.
NextAuth ==
    \/ \E req \in AuthPosts, accept \in BOOLEAN, sid \in SessionIds :
           OneExchange(req) /\ PostMcp(req, accept, sid, NoError)
    \/ \E i \in 1..MaxPending, resp \in OAuthResponses,
          accept \in BOOLEAN, sid \in SessionIds :
           OAuthReturn(i, resp, accept, sid)
    \/ \E d \in TickSteps : Tick(d)

SpecAuth == Init /\ [][NextAuth]_vars

\* The session table: every request method with known, unknown, empty and
\* absent session ids, sessions created from one credential of each channel,
\* tool calls whose upstream call returns, one at a time, closure, the
\* cleanup timers, and the clock in steps of the grace period.
NextSession ==
    \/ \E req \in SessionPosts, accept \in BOOLEAN, sid \in SessionIds :
           /\ OneExchange(req) /\ OneCall(req, accept, NoError)
           /\ PostMcp(req, accept, sid, NoError)
    \/ \E i \in 1..MaxPending, resp \in SessionOAuthResponses,
          accept \in BOOLEAN, sid \in SessionIds :
           OAuthReturn(i, resp, accept, sid)
    \/ \E method \in {"GET", "DELETE"},
          sessionId \in SessionIdHeaders :
           SessionRequest(method, sessionId)
    \/ \E t \in 1..MaxTransports : TransportClose(t)
    \/ \E t \in 1..MaxTransports : CleanupTimer(t)
    \/ Tick(GracePeriod)
    \/ \E i \in 1..MaxCalls : UpstreamReturn(i, GoodAnswer, NoError)

SpecSession == Init /\ [][NextSession]_vars

\* The API secrets of the cache specification: the right one and another
CacheSecrets == ApiSecrets \cup {<<"l">>}

\* Initialize requests that carry an API id and a secret and nothing else
CacheInits ==
    { r \in [ sessionId : {undefined}, body : {"initialize"},
              authorization : {undefined}, apiId : ApiIds,
              apiSecret : CacheSecrets, bodyAuth : {undefined},
              call : {NoCall} ] : TRUE }

\* tools/call requests on a session that carry credentials of every channel
CredentialedCalls ==
    [ sessionId : SessionIds, body : {"tools/call"},
      authorization : {BearerPrefix \o <<"x">>}, apiId : {<<"b">>},
      apiSecret : ApiSecrets, bodyAuth : BodyTokens, call : {AccountInfo} ]

CachePosts == CacheInits

\* The answers of the OAuth endpoint in the cache specification: two
\* different tokens, and each way to fail
CacheOAuthResponses ==
    { r \in OAuthResponses :
        \/ r.thrown
        \/ r.tokenData \in [access_token : AccessTokens, expires_in : {3600}]
        \/ r.ok /\ r.tokenData = [expires_in |-> 3600] }

\* The lifetime of a cached token of 3600 s, which is longer than the grace
\* period of a closed session
CachedLifetime == 3540000

\* The token cache shared by the sessions: resolutions by API id and secret
\* for two API ids and two secrets, one exchange at a time, closure, the
\* cleanup timers, and the clock in steps of the lifetime of a cached token.
NextCache ==
    \/ \E req \in CachePosts, accept \in BOOLEAN, sid \in SessionIds :
           OneExchange(req) /\ PostMcp(req, accept, sid, NoError)
    \/ \E i \in 1..MaxPending, resp \in CacheOAuthResponses,
          accept \in BOOLEAN, sid \in SessionIds :
           OAuthReturn(i, resp, accept, sid)
    \/ \E t \in 1..MaxTransports : TransportClose(t)
    \/ \E t \in 1..MaxTransports : CleanupTimer(t)
    \/ Tick(CachedLifetime)

SpecCache == Init /\ [][NextCache]_vars

\* Initialize requests for the two API ids, each with its secret
RaceInits == {r \in CacheInits : r.apiSecret \in ApiSecrets}

\* Resolutions that interleave across the OAuth fetch: initialize requests
\* for two API ids, with as many exchanges in flight as MaxPending allows,
\* which return in any order and with any answer.
NextRace ==
    \/ \E req \in RaceInits, accept \in BOOLEAN, sid \in SessionIds :
           PostMcp(req, accept, sid, NoError)
    \/ \E i \in 1..MaxPending, resp \in CacheOAuthResponses,
          accept \in BOOLEAN, sid \in SessionIds :
           OAuthReturn(i, resp, accept, sid)

SpecRace == Init /\ [][NextRace]_vars

\* The POST requests of the token-binding specification: initialize requests
\* for the two API ids, and tool calls with and without credentials
BoundPosts == RaceInits \cup AccountCalls \cup CredentialedCalls

\* The token a session is bound to: sessions resolved by API id and secret
\* for two API ids, one exchange at a time, tool calls on them with and
\* without credentials, one upstream call at a time, and the clock in steps
\* of the lifetime of a cached token.
NextBound ==
    \/ \E req \in BoundPosts, accept \in BOOLEAN, sid \in SessionIds :
           /\ OneExchange(req) /\ OneCall(req, accept, NoError)
           /\ PostMcp(req, accept, sid, NoError)
    \/ \E i \in 1..MaxPending, resp \in CacheOAuthResponses,
          accept \in BOOLEAN, sid \in SessionIds :
           OAuthReturn(i, resp, accept, sid)
    \/ \E i \in 1..MaxCalls : UpstreamReturn(i, GoodAnswer, NoError)
    \/ Tick(CachedLifetime)

SpecBound == Init /\ [][NextBound]_vars

\* The POST requests of the cleanup specification: initialize requests with
\* a bearer header or no credential, and tool calls
ReapPosts ==
    { r \in InitRequests :
        /\ r.apiId = undefined /\ r.apiSecret = undefined
        /\ r.bodyAuth = undefined
        /\ r.authorization \in {undefined, BearerPrefix \o <<"x">>} }
    \cup AccountCalls

\* Closure and cleanup while time passes: sessions are created, used, closed
\* by a DELETE request or otherwise, superseded under the same id, and reaped.
NextReap ==
    \/ \E req \in ReapPosts, accept \in BOOLEAN, sid \in SessionIds :
           OneCall(req, accept, NoError) /\ PostMcp(req, accept, sid, NoError)
    \/ \E i \in 1..MaxCalls : UpstreamReturn(i, GoodAnswer, NoError)
    \/ \E method \in {"GET", "DELETE"}, sessionId \in SessionIdHeaders :
           SessionRequest(method, sessionId)
    \/ \E t \in 1..MaxTransports : TransportClose(t)
    \/ \E t \in 1..MaxTransports : CleanupTimer(t)
    \/ \E t \in 1..MaxTransports : Elapse(t)

\* Time does not stop before a timer that is set, and a timer that is due
\* runs its callback (setTimeout)
SpecReap ==
    /\ Init
    /\ [][NextReap]_vars
    /\ \A t \in 1..MaxTransports :
           WF_vars(Elapse(t)) /\ WF_vars(CleanupTimer(t))

\* Authorization headers: those of AuthHeaders, "Bearer" alone and a
\* lower-case scheme
BearerHeaders ==
    AuthHeaders
    \cup { <<"B", "e", "a", "r", "e", "r">>,
           <<"b", "e", "a", "r", "e", "r", " ", "x">> }

\* Initialize requests with every such header, with and without the API
\* pair, and with a token, an empty token or no token in the body
BearerInits ==
    [ sessionId : {undefined}, body : {"initialize"},
      authorization : BearerHeaders,
      apiId : {undefined, <<"a">>}, apiSecret : {undefined} \cup ApiSecrets,
      bodyAuth : BodyTokens \cup {undefined, << >>},
      call : {NoCall} ]

\* The answers of the OAuth endpoint in the header specification: those of
\* the session-table specification and a success with an empty access_token
BearerOAuthResponses ==
    SessionOAuthResponses
    \cup { r \in OAuthResponses :
             r.ok /\ r.tokenData = [access_token |-> << >>, expires_in |-> 3600] }

\* The Authorization header: initialize requests with every form of the
\* header and every combination of the other credentials, and every kind
\* of answer of the OAuth endpoint.
NextBearer ==
    \/ \E req \in BearerInits, accept \in BOOLEAN, sid \in SessionIds :
           OneExchange(req) /\ PostMcp(req, accept, sid, NoError)
    \/ \E i \in 1..MaxPending, resp \in BearerOAuthResponses,
          accept \in BOOLEAN, sid \in SessionIds :
           OAuthReturn(i, resp, accept, sid)

SpecBearer == Init /\ [][NextBearer]_vars

\* An initialize request with a bearer header, one with an API id and
\* secret, and notifications and tool calls on a session
HungPosts ==
    { r \in InitRequests :
        /\ r.bodyAuth = undefined
        /\ \/ /\ r.authorization = BearerPrefix \o <<"x">>
              /\ r.apiId = undefined /\ r.apiSecret = undefined
           \/ /\ r.authorization = undefined
              /\ r.apiId = <<"a">> /\ r.apiSecret # undefined }
    \cup { r \in OtherRequests :
             r.sessionId \in SessionIds /\ r.body = "notification" }
    \cup AccountCalls

\* The answers of the upstream API in the suspension specification
HungResponses ==
    {r \in UpstreamResponses : r.thrown \/ r = GoodAnswer}

\* Suspension: initialize requests, requests on sessions and tool
\* invocations while OAuth exchanges and upstream calls are in flight, each
\* of which may return at any time or never.
NextHung ==
    \/ \E req \in HungPosts, accept \in BOOLEAN, sid \in SessionIds :
           PostMcp(req, accept, sid, NoError)
    \/ \E i \in 1..MaxPending, resp \in SessionOAuthResponses,
          accept \in BOOLEAN, sid \in SessionIds :
           OAuthReturn(i, resp, accept, sid)
    \/ \E i \in 1..MaxCalls, resp \in HungResponses :
           UpstreamReturn(i, resp, NoError)

SpecHung == Init /\ [][NextHung]_vars

\* The initialize requests of the tool specification: a bearer header or a
\* token in the body
ToolInits ==
    { r \in InitRequests :
        /\ r.apiId = undefined /\ r.apiSecret = undefined
        /\ \/ r.authorization = BearerPrefix \o <<"x">> /\ r.bodyAuth = undefined
           \/ r.authorization = undefined /\ r.bodyAuth # undefined }

\* The tools: sessions with two different tokens, every tool with its
\* arguments on every session, one upstream call at a time, every answer of
\* the upstream API, and errors thrown in the handlers.
NextTools ==
    \/ \E req \in ToolInits \cup ToolCalls, accept \in BOOLEAN,
          sid \in SessionIds, fault \in Faults :
           OneCall(req, accept, fault) /\ PostMcp(req, accept, sid, fault)
    \/ \E i \in 1..MaxCalls, resp \in UpstreamResponses, fault \in Faults :
           UpstreamReturn(i, resp, fault)

SpecTools == Init /\ [][NextTools]_vars

\* makeSendPulseRequest on its own: every channel, one call at a time, with
\* every answer of the upstream API.
NextProxy ==
    \/ \E channel \in Channels, path \in ProxyPaths,
          token \in BodyTokens, options \in ProxyOptions :
           NoCallInFlight /\ MakeSendPulseRequest(channel, path, token, options)
    \/ \E i \in 1..MaxCalls, resp \in UpstreamResponses :
           ProxyReturn(i, resp)

SpecProxy == Init /\ [][NextProxy]_vars

----------------------------------------------------------------------------
(* The cases the claims speak of *)

\* A tools/call of the tool with the arguments arrives for the session and
\* the SDK hands it to the tool
Invokes(sessionId, tool, args, fault) ==
    PostMcp([NoReq EXCEPT !.sessionId = sessionId, !.body = "tools/call",
                          !.call = [tool |-> tool, args |-> args]],
            TRUE, sessionId, fault)

\* A POST without a session id whose body is an initialize request
IsInitialization(req) ==
    req.sessionId \in {undefined, <<>>} /\ req.body = "initialize"

\* An Authorization header "Bearer " followed by a non-empty token
CarriesBearer(req) ==
    /\ req.authorization # undefined
    /\ Len(req.authorization) > 7
    /\ \A k \in 1..7 : req.authorization[k] = BearerPrefix[k]

\* The characters of the Authorization header after "Bearer "
BearerCredential(req) ==
    [k \in 1..(Len(req.authorization) - 7) |-> req.authorization[k + 7]]

CarriesApiPair(req) ==
    /\ req.apiId \notin {undefined, <<>>}
    /\ req.apiSecret \notin {undefined, <<>>}

CarriesBodyToken(req) == req.bodyAuth \notin {undefined, <<>>}

\* The step's handler ended with no credential from any channel: no bearer
\* token, no in-payload token, and no API pair or a failed exchange for it
NoUsableCredential(e) ==
    /\ e.op \in {"post", "oauthReturn"}
    /\ IsInitialization(e.req)
    /\ ~CarriesBearer(e.req)
    /\ ~CarriesBodyToken(e.req)
    /\ IF e.op = "oauthReturn" THEN e.exchange = "failed"
       ELSE ~CarriesApiPair(e.req)

\* The session of transport t is registered and bound to token tok
SessionBound(table, os, t, tok) ==
    /\ t \in 1..Len(os)
    /\ os[t].authToken = tok
    /\ os[t].sessionId \in DOMAIN table
    /\ table[os[t].sessionId] = t

----------------------------------------------------------------------------
(* C1: an initialize request that carries a bearer credential and an API
   id/secret pair is bound to the bearer token exactly as the header gives
   it; the step makes no OAuth call, does not look the token cache up and
   leaves the cache and the suspended exchanges as they were. *)
C1_BearerWins ==
    [][ LET e == lastEvent'
        IN  ( /\ e.op = "post"
              /\ IsInitialization(e.req)
              /\ CarriesBearer(e.req)
              /\ CarriesApiPair(e.req) )
            => /\ e.created
               /\ e.boundToken = BearerCredential(e.req)
               /\ ~e.oauthCalled
               /\ ~e.cacheRead
               /\ tokenCache' = tokenCache
               /\ pending' = pending
               /\ e.status = 200 =>
                      SessionBound(transports', objs', e.transport,
                                   BearerCredential(e.req)) ]_vars

C1_Witness ==
    /\ lastEvent.op = "post"
    /\ IsInitialization(lastEvent.req)
    /\ CarriesBearer(lastEvent.req)
    /\ CarriesApiPair(lastEvent.req)
    /\ lastEvent.status = 200
    /\ SessionBound(transports, objs, lastEvent.transport, <<"x">>)
    /\ tokenCache # << >>

(* C2: an initialize request that yields no usable credential from the bearer
   header, the API pair or the payload is answered 401 with code -32001, and
   neither the session table nor the transports change; the step that only
   suspends on the OAuth fetch changes neither as well. *)
C2_Unauthorized ==
    [][ LET e == lastEvent'
        IN  /\ NoUsableCredential(e)
               => /\ e.status = 401
                  /\ e.code = -32001
                  /\ ~e.created
                  /\ transports' = transports
                  /\ objs' = objs
            /\ (e.op = "post" /\ e.oauthCalled)
               => /\ ~e.created
                  /\ transports' = transports
                  /\ objs' = objs ]_vars

C2_Witness ==
    /\ NoUsableCredential(lastEvent)
    /\ lastEvent.op = "oauthReturn"
    /\ lastEvent.status = 401
    /\ DOMAIN transports # {}

(* C3, as claimed: whenever the OAuth exchange of an initialize request fails,
   the request is answered 401 and no session is created, whatever else the
   request carries. *)
C3_Original ==
    [][ LET e == lastEvent'
        IN  (e.op = "oauthReturn" /\ e.exchange = "failed")
            => /\ e.status = 401
               /\ ~e.created
               /\ transports' = transports
               /\ objs' = objs ]_vars

(* C3, amended: when the exchange fails the request falls through to the
   in-payload token: with one, a transport and server are created with that
   token; without one, the answer is 401 and nothing is created.  A failed
   exchange leaves the token cache unchanged.  When the exchange succeeds the
   exchanged token is used, whatever the payload carries. *)
C3_Amended ==
    [][ LET e == lastEvent'
        IN  /\ (e.op = "oauthReturn" /\ e.exchange = "failed")
               => /\ tokenCache' = tokenCache
                  /\ IF CarriesBodyToken(e.req)
                     THEN /\ e.created
                          /\ e.boundToken = e.req.bodyAuth
                          /\ e.status = 200 =>
                                 SessionBound(transports', objs',
                                              e.transport, e.req.bodyAuth)
                     ELSE /\ e.status = 401
                          /\ ~e.created
                          /\ transports' = transports
                          /\ objs' = objs
            /\ (e.op = "oauthReturn" /\ e.exchange = "ok")
               => /\ e.created
                  /\ e.req.apiId \in DOMAIN tokenCache'
                  /\ e.boundToken = tokenCache'[e.req.apiId].token ]_vars

C3_Witness ==
    /\ lastEvent.op = "oauthReturn"
    /\ lastEvent.exchange = "failed"
    /\ lastEvent.status = 200
    /\ SessionBound(transports, objs, lastEvent.transport, <<"y">>)

----------------------------------------------------------------------------
(* The token cache *)

\* The step handled an initialize request that reaches the API id/secret
\* channel: no usable bearer header, and both an API id and a secret
ResolvesByApiPair(e) ==
    /\ e.op = "post"
    /\ IsInitialization(e.req)
    /\ ~CarriesBearer(e.req)
    /\ CarriesApiPair(e.req)

\* The OAuth endpoint answered with a success status and an access token
Succeeds(resp) ==
    /\ ~resp.thrown
    /\ resp.ok
    /\ "access_token" \in DOMAIN resp.tokenData
    /\ resp.tokenData.access_token # <<>>

(* C4: a resolution for an API id that starts while the cache holds an entry
   for that id whose expiresAt is greater than the current time uses the
   cached token and makes no OAuth call; the cache and the suspended
   exchanges stay as they were. *)
C4_CacheHit ==
    [][ LET e == lastEvent'
        IN  ( /\ ResolvesByApiPair(e)
              /\ e.req.apiId \in DOMAIN tokenCache
              /\ tokenCache[e.req.apiId].expiresAt > now )
            => /\ ~e.oauthCalled
               /\ e.created
               /\ e.boundToken = tokenCache[e.req.apiId].token
               /\ tokenCache' = tokenCache
               /\ pending' = pending ]_vars

\* A resolution served from the cache after time has passed since the
\* exchange that filled it
C4_Witness ==
    /\ ResolvesByApiPair(lastEvent)
    /\ ~lastEvent.oauthCalled
    /\ lastEvent.status = 200
    /\ ticks > 0
    /\ lastEvent.req.apiId \in DOMAIN tokenCache
    /\ tokenCache[lastEvent.req.apiId].expiresAt = StartTime + 3540000
    /\ SessionBound(transports, objs, lastEvent.transport,
                    tokenCache[lastEvent.req.apiId].token)

(* C5: a cached token whose expiresAt is not greater than the current time is
   never used by a resolution: the resolution makes a new OAuth call and
   creates nothing until it returns, and a successful exchange puts the new
   token in the cache entry of that API id. *)
C5_ExpiredNotReused ==
    [][ /\ LET e == lastEvent'
           IN  /\ ( /\ ResolvesByApiPair(e)
                    /\ e.req.apiId \in DOMAIN tokenCache
                    /\ tokenCache[e.req.apiId].expiresAt <= now )
                  => /\ e.oauthCalled
                     /\ ~e.created
                     /\ Len(pending') = Len(pending) + 1
                     /\ pending'[Len(pending')].apiId = e.req.apiId
               /\ (ResolvesByApiPair(e) /\ e.created)
                  => /\ e.req.apiId \in DOMAIN tokenCache
                     /\ tokenCache[e.req.apiId].expiresAt > now
        /\ lastEvent'.op = "oauthReturn"
           => \A i \in 1..Len(pending), resp \in OAuthResponses,
                 accept \in BOOLEAN, sid \in SessionIds :
                  (Succeeds(resp) /\ OAuthReturn(i, resp, accept, sid))
                  => /\ pending[i].apiId \in DOMAIN tokenCache'
                     /\ tokenCache'[pending[i].apiId].token =
                            resp.tokenData.access_token
                     /\ lastEvent'.boundToken = resp.tokenData.access_token
      ]_vars

\* A session holds the token of an entry that expired, and an exchange has
\* just put another token in that entry
C5_Witness ==
    /\ lastEvent.op = "oauthReturn"
    /\ lastEvent.exchange = "ok"
    /\ \E t \in 1..Len(objs) :
           /\ objs[t].source = "oauth"
           /\ objs[t].expiresAt <= now
           /\ objs[t].expiresAt > StartTime
           /\ objs[t].authToken # tokenCache[lastEvent.req.apiId].token
    /\ tokenCache[lastEvent.req.apiId].expiresAt > now

(* C6, as claimed: no upstream request carries a token obtained through the
   OAuth exchange or the token cache at a time later than that token's
   expiresAt (its declared expiry minus 60 seconds, which the code's
   expiresAt is never below), however long after initialization the tool is
   invoked.  Stated for the sessions whose token was before its expiresAt
   when the session was initialized. *)
C6_NoStaleToken ==
    lastEvent.upstream.sent
    => LET t == lastEvent.upstream.transport
       IN  (objs[t].source = "oauth" /\ objs[t].boundAt < objs[t].expiresAt)
           => now <= objs[t].expiresAt

\* The lifetime the response declares, 3600 when it declares none
DeclaredLifetime(resp) ==
    IF "expires_in" \in DOMAIN resp.tokenData
    THEN resp.tokenData.expires_in
    ELSE 3600

(* C7, as claimed: after a successful exchange completing at time T with
   lifetime L seconds, expiresAt is T + L*1000 - 60000, with L = 3600 when the
   response omits the lifetime. *)
C7_Original ==
    [][ lastEvent'.op = "oauthReturn"
        => \A i \in 1..Len(pending), resp \in OAuthResponses,
              accept \in BOOLEAN, sid \in SessionIds :
               (Succeeds(resp) /\ OAuthReturn(i, resp, accept, sid))
               => tokenCache'[pending[i].apiId].expiresAt =
                      now + DeclaredLifetime(resp) * 1000 - 60000 ]_vars

\* The lifetime the code uses: 3600 also when the response declares 0
EffectiveLifetime(resp) ==
    IF DeclaredLifetime(resp) = 0 THEN 3600 ELSE DeclaredLifetime(resp)

(* C7, amended: expiresAt is T + L*1000 - 60000 with L = 3600 when the
   response omits the lifetime or gives it as 0; a resolution that starts at
   or after expiresAt makes a fresh exchange. *)
C7_Amended ==
    [][ /\ lastEvent'.op = "oauthReturn"
           => \A i \in 1..Len(pending), resp \in OAuthResponses,
                 accept \in BOOLEAN, sid \in SessionIds :
                  (Succeeds(resp) /\ OAuthReturn(i, resp, accept, sid))
                  => tokenCache'[pending[i].apiId].expiresAt =
                         now + EffectiveLifetime(resp) * 1000 - 60000
        /\ LET e == lastEvent'
           IN  ( /\ ResolvesByApiPair(e)
                 /\ e.req.apiId \in DOMAIN tokenCache
                 /\ now >= tokenCache[e.req.apiId].expiresAt )
               => e.oauthCalled ]_vars

\* An entry cached at StartTime for 3600 s, and a resolution 3600 s later
\* that makes a fresh exchange
C7_Witness ==
    /\ ResolvesByApiPair(lastEvent)
    /\ lastEvent.oauthCalled
    /\ lastEvent.req.apiId \in DOMAIN tokenCache
    /\ tokenCache[lastEvent.req.apiId].expiresAt = StartTime + 3540000
    /\ now = StartTime + 3600000

----------------------------------------------------------------------------
(* The session table *)

\* A later transport was registered under the session id of transport t
Superseded(os, t) ==
    \E u \in (t + 1)..Len(os) : os[u].sessionId = os[t].sessionId

\* The step handled a request that bears the session id sid
Bears(e, sid) ==
    e.op \in {"post", "tool", "GET", "DELETE"} /\ e.req.sessionId = sid

(* C8: from a transport's closure until its cleanup timer fires, its session
   id stays in the session table and every request bearing the id is routed
   to that transport (no 400); the timer is due 60000 ms after the closure
   and does not fire before; once it has fired, with no later transport
   registered under the id, the id is not in the table and every request
   bearing it is answered 400. *)
C8_GracePeriod ==
    /\ [](\A t \in 1..Len(objs) :
            ~Superseded(objs, t)
            => /\ objs[t].timer = "pending"
                  => /\ objs[t].sessionId \in DOMAIN transports
                     /\ transports[objs[t].sessionId] = t
               /\ objs[t].timer = "fired"
                  => objs[t].sessionId \notin DOMAIN transports)
    /\ [][ \A t \in 1..Len(objs) :
             /\ (objs[t].timer = "none" /\ objs'[t].timer = "pending")
                => objs'[t].due = now + 60000
             /\ (objs[t].timer = "pending" /\ objs'[t].timer = "fired")
                => now >= objs[t].due
             /\ ( /\ objs[t].timer = "pending"
                  /\ ~Superseded(objs, t)
                  /\ Bears(lastEvent', objs[t].sessionId) )
                => /\ lastEvent'.status # 400
                   /\ lastEvent'.transport = t
             /\ ( /\ objs[t].timer = "fired"
                  /\ ~Superseded(objs, t)
                  /\ Bears(lastEvent', objs[t].sessionId) )
                => /\ lastEvent'.status = 400
                   /\ lastEvent'.transport = 0 ]_vars

\* A request bearing the id of a session whose timer has fired was answered
\* 400 while another session is still in the table
C8_Witness ==
    /\ lastEvent.status = 400
    /\ DOMAIN transports # {}
    /\ \E t \in 1..Len(objs) :
           /\ objs[t].timer = "fired"
           /\ ~Superseded(objs, t)
           /\ Bears(lastEvent, objs[t].sessionId)

(* C9: when the cleanup timer of a transport fires, the session table loses
   the entry of the transport's session id if that entry is still that
   transport, and is unchanged otherwise; no entry of another transport is
   ever removed or changed by it. *)
C9_CleanupIdentity ==
    [][ \A t \in 1..Len(objs) :
          (objs[t].timer = "pending" /\ objs'[t].timer = "fired")
          => LET sid == objs[t].sessionId
             IN  /\ IF sid \in DOMAIN transports /\ transports[sid] = t
                    THEN /\ DOMAIN transports' = DOMAIN transports \ {sid}
                    ELSE transports' = transports
                 /\ \A s \in DOMAIN transports :
                        transports[s] # t
                        => /\ s \in DOMAIN transports'
                           /\ transports'[s] = transports[s] ]_vars

\* The timer of a superseded transport has just fired and the transport that
\* superseded it is still in the table under the same id
C9_Witness ==
    /\ lastEvent.op = "timer"
    /\ objs[lastEvent.transport].timer = "fired"
    /\ Superseded(objs, lastEvent.transport)
    /\ objs[lastEvent.transport].sessionId \in DOMAIN transports
    /\ transports[objs[lastEvent.transport].sessionId] # lastEvent.transport

\* The session id of the request is absent (or empty) or no key of the table
UnknownSession(req, table) ==
    req.sessionId \in {undefined, <<>>} \/ req.sessionId \notin DOMAIN table

(* C10, as claimed: a POST whose body is not an initialize request, a GET or
   a DELETE, whose session id is absent or not a key of the session table, is
   answered 400 (a POST with code -32000), reaches no transport and sends
   nothing upstream, and leaves the session table, the transports, the token
   cache and the suspended exchanges unchanged. *)
C10_BadRequest ==
    [][ LET e == lastEvent'
        IN  ( /\ \/ e.op = "post" /\ e.req.body # "initialize"
                 \/ e.op \in {"GET", "DELETE"}
              /\ UnknownSession(e.req, transports) )
            => /\ e.status = 400
               /\ e.op = "post" => e.code = -32000
               /\ e.transport = 0
               /\ ~e.upstream.sent
               /\ ~e.created
               /\ transports' = transports
               /\ objs' = objs
               /\ tokenCache' = tokenCache
               /\ pending' = pending ]_vars

----------------------------------------------------------------------------
(* The upstream request proxy and the tools *)

\* The fetch ended without a response that can be used: it threw, the body
\* could not be read, or a success status came with a body that is no JSON
TransportFailure(resp) ==
    \/ resp.thrown
    \/ ~resp.body.readable
    \/ resp.status \in 200..299 /\ ~resp.body.isJson

\* The value the claim gives for an ended fetch, with `message` the error
\* text of a transport-level failure
ClaimedResult(resp, message) ==
    IF TransportFailure(resp) THEN [success |-> FALSE, error |-> <<message>>]
    ELSE IF resp.status \notin 200..299
    THEN [ success |-> FALSE,
           error |-> << "API request failed with status ",
                        StatusText(resp.status) >>,
           details |-> resp.body.text ]
    ELSE resp.body.parsed

(* C12, as claimed: the proxy never raises; a non-success status N gives
   {success: false, error: "API request failed with status N", details: raw
   body}, a transport-level failure gives {success: false, error: "unexpected
   error"} with no details, and the tool returns the value serialized as its
   text. *)
C12_Original ==
    [][ lastEvent'.op = "toolReturn"
        => \A i \in 1..MaxCalls, resp \in UpstreamResponses :
               UpstreamReturn(i, resp, NoError)
               => lastEvent'.text =
                      StringifyIndented(ClaimedResult(resp, "unexpected error"))
      ]_vars

(* C12, amended: as claimed, but the error text of a transport-level failure
   is "An unexpected error occurred."; every fetch that ends gives the tool a
   text, and the handler that was suspended is no longer so. *)
C12_Amended ==
    [][ lastEvent'.op = "toolReturn"
        => /\ \A i \in 1..MaxCalls, resp \in UpstreamResponses :
                  UpstreamReturn(i, resp, NoError)
                  => lastEvent'.text =
                         StringifyIndented(
                             ClaimedResult(resp,
                                           "An unexpected error occurred."))
           /\ lastEvent'.text # NoText
           /\ Len(calls') = Len(calls) - 1 ]_vars

\* get_dialogs has returned the failure value of an HTTP 404 with its body
C12_Witness ==
    /\ lastEvent.op = "toolReturn"
    /\ lastEvent.tool = "get_dialogs"
    /\ lastEvent.text =
           StringifyIndented(
               [ success |-> FALSE,
                 error |-> <<"API request failed with status ", "404">>,
                 details |-> "<html>" ])

\* The upstream path prefix of each channel send_message supports
PrefixOf(channel) ==
    CASE channel = "whatsapp" -> "/whatsapp"
      [] channel = "telegram" -> "/telegram"
      [] channel = "instagram" -> "/instagram"
      [] channel = "messenger" -> "/messenger"
      [] channel = "livechat" -> "/live-chat"
      [] channel = "viber" -> "/viber/chatbots"

\* The payload has the shape of the channel, built from contact_id and text
HasShape(body, channel, contact_id, text) ==
    /\ body.contact_id = contact_id
    /\ CASE channel = "whatsapp" -> body.message.text.body = text
         [] channel = "telegram" -> body.message.text = text
         [] channel = "instagram" -> body.messages[1].message.text = text
         [] channel = "messenger" ->
                /\ body.message.type = "RESPONSE"
                /\ body.message.tag = "ACCOUNT_UPDATE"
                /\ body.message.text = text
         [] channel \in {"livechat", "viber"} ->
                body.messages[1].text.text = text

(* C13: for each supported channel tag send_message issues exactly one POST
   to the channel's own path prefix plus /contacts/send, with the channel's
   payload shape built from contact_id and text; for any other tag it returns
   a "not supported" text, issues no upstream request and throws nothing. *)
C13_SendMessage ==
    [][ LET e == lastEvent'
        IN  (e.op = "tool" /\ e.tool = "send_message")
            => \A sessionId \in SessionIds, args \in ToolArgs("send_message") :
                   Invokes(sessionId, "send_message", args, NoError)
                   => IF args.channel \in SendChannels
                      THEN /\ Len(calls') = Len(calls) + 1
                           /\ calls'[Len(calls')].fetch = e.fetch
                           /\ e.fetch.method = "POST"
                           /\ e.fetch.url =
                                  << "https://api.sendpulse.com",
                                     PrefixOf(args.channel),
                                     "/contacts/send" >>
                           /\ "json" \in DOMAIN e.fetch.body
                           /\ HasShape(e.fetch.body.json, args.channel,
                                       args.contact_id, args.text)
                           /\ e.text = NoText
                      ELSE /\ calls' = calls
                           /\ e.fetch = NoFetch
                           /\ ~e.upstream.sent
                           /\ e.text.text =
                                  << "Error: Channel '", args.channel,
                                     "' is not supported." >> ]_vars

\* send_message on viber has issued its POST, and the handler is suspended
C13_Witness ==
    /\ lastEvent.op = "tool"
    /\ lastEvent.tool = "send_message"
    /\ lastEvent.args.channel = "viber"
    /\ lastEvent.fetch # NoFetch
    /\ lastEvent.fetch.url[2] = "/viber/chatbots"
    /\ lastEvent.fetch.body.json.messages[1].text.text = "hi"
    /\ Len(calls) = 1

\* The upstream path prefixes the proxy resolves
Prefixes ==
    { "/whatsapp", "/telegram", "/instagram", "/messenger", "/live-chat",
      "/viber/chatbots", "/chatbots" }

(* C14: a channel tag that is none of the recognized channels gives no HTTP
   request and an explicit failure that names the tag.  The proxy is never
   called with such a tag: every request it issues goes to the path prefix
   of a recognized channel; a tools/call of send_message that names such a
   tag issues no request, whether the SDK hands it to the tool or not, and
   leaves the calls in flight as they are; and when the handler runs it
   throws nothing and returns the text "Error: Channel '<tag>' is not
   supported.", unless an error was thrown in it before the tag was looked
   at, which it returns as the text "Error executing send_message: ...". *)
C14_UnrecognizedChannel ==
    /\ [](\A i \in 1..Len(calls) :
            /\ calls[i].fetch.url[1] = "https://api.sendpulse.com"
            /\ calls[i].fetch.url[2] \in Prefixes
            /\ calls[i].tool = "send_message"
               => calls[i].args.channel \in DOMAIN CHANNEL_API_PATHS)
    /\ [][ LET e == lastEvent'
           IN  ( /\ e.op \in {"post", "tool"}
                 /\ e.req.body = "tools/call"
                 /\ e.req.call.tool = "send_message"
                 /\ e.req.call.args.channel \notin DOMAIN CHANNEL_API_PATHS )
               => /\ calls' = calls
                  /\ ~e.upstream.sent
                  /\ ~e.thrown
                  /\ e.op = "tool"
                     => /\ e.fetch = NoFetch
                        /\ \/ e.text.text =
                                  << "Error: Channel '",
                                     e.req.call.args.channel,
                                     "' is not supported." >>
                           \/ /\ Len(e.text.text) = 4
                              /\ SubSeq(e.text.text, 1, 3) =
                                     << "Error executing ", "send_message",
                                        ": " >>
                        /\ \A sessionId \in SessionIds :
                               Invokes(sessionId, "send_message",
                                       e.req.call.args, NoError)
                               => e.text.text[1] = "Error: Channel '" ]_vars

\* send_message with the tag sms has returned its text and issued nothing,
\* while the upstream call of another invocation is in flight
C14_Witness ==
    /\ lastEvent.op = "tool"
    /\ lastEvent.tool = "send_message"
    /\ lastEvent.args.channel = "sms"
    /\ lastEvent.fetch = NoFetch
    /\ lastEvent.text =
           [text |-> <<"Error: Channel '", "sms", "' is not supported.">>]
    /\ Len(calls) = 1
    /\ calls[1].fetch.url[2] = "/telegram"

\* The message of an error thrown in a handler
Thrown == {f \in Faults : f.thrown}

(* C15: an error thrown in the handler of any of the four tools, before or
   after its upstream call, is caught there and becomes the text "Error
   executing <tool>: <message>"; the invocation ends with a text, leaves no
   handler suspended, and leaves the session table and the transports as
   they were. *)
C15_HandlerFailure ==
    [][ /\ lastEvent'.op = "tool"
           => \A sessionId \in SessionIds, tool \in Tools, f \in Thrown :
                  \A args \in ToolArgs(tool) :
                      Invokes(sessionId, tool, args, f)
                      => /\ lastEvent'.text.text =
                                <<"Error executing ", tool, ": ", f.message>>
                         /\ calls' = calls
        /\ lastEvent'.op = "toolReturn"
           => /\ \A i \in 1..MaxCalls, resp \in UpstreamResponses,
                    f \in Thrown :
                     UpstreamReturn(i, resp, f)
                     => lastEvent'.text.text =
                            << "Error executing ", calls[i].tool, ": ",
                               f.message >>
              /\ lastEvent'.text # NoText
        /\ lastEvent'.op \in {"tool", "toolReturn"}
           => /\ transports' = transports
              /\ objs' = objs
              /\ lastEvent'.tool \in Tools
              /\ ~lastEvent'.thrown ]_vars

\* An error thrown in send_message after its upstream call has been reported
\* as text, and the session is still in the table
C15_Witness ==
    /\ lastEvent.op = "toolReturn"
    /\ lastEvent.tool = "send_message"
    /\ lastEvent.text =
           [text |-> <<"Error executing ", "send_message", ": ", "boom">>]
    /\ lastEvent.transport \in 1..Len(objs)
    /\ objs[lastEvent.transport].sessionId \in DOMAIN transports
    /\ calls = << >>

----------------------------------------------------------------------------
(* Sessions and the token cache they share *)

(* C11: a session is bound to one token for its whole life: the token and the
   session id of a transport never change; a session that is created holds
   the token its initialization resolved; and every upstream request of a
   tool call on a session carries, as "Bearer <token>", the token of the
   transport the session id maps to, whatever other sessions were
   initialized since, whatever the token cache holds now, and whatever
   credentials the tool call itself carries. *)
C11_OneToken ==
    [][ LET e == lastEvent'
        IN  /\ \A t \in 1..Len(objs) :
                   /\ t <= Len(objs')
                   /\ objs'[t].authToken = objs[t].authToken
                   /\ objs'[t].sessionId = objs[t].sessionId
            /\ (e.created /\ e.status = 200)
               => /\ e.transport = Len(objs')
                  /\ Len(objs') = Len(objs) + 1
                  /\ objs'[e.transport].authToken = e.boundToken
            /\ e.upstream.sent
               => /\ e.op = "tool"
                  /\ e.req.sessionId \in DOMAIN transports
                  /\ e.upstream.transport = transports[e.req.sessionId]
                  /\ e.upstream.authorization =
                         BearerPrefix
                         \o objs[transports[e.req.sessionId]].authToken
                  /\ e.fetch.authorization = e.upstream.authorization
                  /\ calls'[Len(calls')].fetch = e.fetch
      ]_vars

\* A tool call that carries credentials of its own has sent the token of its
\* session upstream, after the token cache was refreshed with another token
\* and a later session was bound to that one
C11_Witness ==
    /\ lastEvent.upstream.sent
    /\ lastEvent.req.authorization = BearerPrefix \o <<"x">>
    /\ lastEvent.upstream.transport = 1
    /\ Len(objs) = 2
    /\ objs[1].source = "oauth"
    /\ objs[2].source = "oauth"
    /\ objs[1].authToken # objs[2].authToken
    /\ lastEvent.upstream.authorization = BearerPrefix \o objs[1].authToken
    /\ \E id \in DOMAIN tokenCache :
           tokenCache[id].token = objs[2].authToken

(* C16: resolutions for one API id that interleave across the OAuth fetch:
   a resolution that misses the cache starts an exchange of its own even
   while another is in flight; when an exchange returns with success, its
   resolution does not fail, its session is bound to the token that exchange
   returned, and the cache entry of the API id holds that token (the last
   writer wins); a failed exchange leaves the cache as it was; the entries of
   other API ids and the other exchanges in flight are untouched; and the
   cache never holds a token no exchange returned. *)
C16_Interleaving ==
    /\ [](\A id \in DOMAIN tokenCache :
              id \in ApiIds /\ tokenCache[id].token \in AccessTokens)
    /\ [][ /\ LET e == lastEvent'
              IN  ( /\ ResolvesByApiPair(e)
                    /\ ~( /\ e.req.apiId \in DOMAIN tokenCache
                          /\ tokenCache[e.req.apiId].expiresAt > now ) )
                  => /\ e.oauthCalled
                     /\ Len(pending') = Len(pending) + 1
                     /\ tokenCache' = tokenCache
           /\ lastEvent'.op = "oauthReturn"
              => \A i \in 1..MaxPending, resp \in CacheOAuthResponses,
                    accept \in BOOLEAN, sid \in SessionIds :
                     OAuthReturn(i, resp, accept, sid)
                     => /\ Succeeds(resp)
                           => /\ lastEvent'.status # 401
                              /\ lastEvent'.created
                              /\ lastEvent'.boundToken =
                                     resp.tokenData.access_token
                              /\ accept =>
                                     SessionBound(transports', objs',
                                                  lastEvent'.transport,
                                                  resp.tokenData.access_token)
                              /\ pending[i].apiId \in DOMAIN tokenCache'
                              /\ tokenCache'[pending[i].apiId].token =
                                     resp.tokenData.access_token
                        /\ ~Succeeds(resp) => tokenCache' = tokenCache
                        /\ \A id \in DOMAIN tokenCache \ {pending[i].apiId} :
                               /\ id \in DOMAIN tokenCache'
                               /\ tokenCache'[id] = tokenCache[id]
                        /\ DOMAIN tokenCache'
                               \subseteq DOMAIN tokenCache
                                         \cup {pending[i].apiId}
                        /\ Len(pending') = Len(pending) - 1
                        /\ \A j \in 1..Len(pending') :
                               pending'[j] =
                                   pending[IF j < i THEN j ELSE j + 1] ]_vars

\* Two exchanges for one API id were in flight together and returned
\* different tokens: each session has its own, the cache has the later one
C16_Witness ==
    /\ lastEvent.op = "oauthReturn"
    /\ lastEvent.exchange = "ok"
    /\ now = StartTime
    /\ Len(objs) = 2
    /\ objs[1].source = "oauth"
    /\ objs[2].source = "oauth"
    /\ objs[1].authToken # objs[2].authToken
    /\ DOMAIN tokenCache = {lastEvent.req.apiId}
    /\ tokenCache[lastEvent.req.apiId].token = objs[2].authToken
    /\ SessionBound(transports, objs, 1, objs[1].authToken)
    /\ SessionBound(transports, objs, 2, objs[2].authToken)

\* The entry of the API id is not what it was: it is new, gone, or another
EntryChanged(cache, cache2, id) ==
    \/ (id \in DOMAIN cache) # (id \in DOMAIN cache2)
    \/ id \in DOMAIN cache /\ id \in DOMAIN cache2 /\ cache[id] # cache2[id]

(* C19: the cache entry of an API id changes only in the step in which an
   OAuth exchange for that API id returns with success: a cache hit, a failed
   exchange, the passing of time, a closure, a cleanup timer, a tool call and
   a resolution for another API id leave it as it was; no entry is ever
   removed; and the keys of the cache are API ids, one entry each. *)
C19_CacheFrame ==
    /\ [](DOMAIN tokenCache \subseteq ApiIds)
    /\ [][ \A id \in ApiIds :
             /\ id \in DOMAIN tokenCache => id \in DOMAIN tokenCache'
             /\ EntryChanged(tokenCache, tokenCache', id)
                => /\ lastEvent'.op = "oauthReturn"
                   /\ lastEvent'.exchange = "ok"
                   /\ lastEvent'.req.apiId = id
             /\ ( \/ lastEvent'.op \in {"post", "tick", "close", "timer"}
                  \/ lastEvent'.op = "oauthReturn"
                     /\ lastEvent'.exchange = "failed" )
                => ~EntryChanged(tokenCache, tokenCache', id) ]_vars

\* A cleanup timer has just fired while the cache holds an entry that has
\* expired and, for the other API id, one that has not
C19_Witness ==
    /\ lastEvent.op = "timer"
    /\ DOMAIN tokenCache = ApiIds
    /\ \E id \in ApiIds : tokenCache[id].expiresAt <= now
    /\ \E id \in ApiIds : tokenCache[id].expiresAt > now

\* The initialize request that carries the API id and the secret
InitWith(apiId, apiSecret) ==
    [NoReq EXCEPT !.body = "initialize", !.apiId = apiId,
                  !.apiSecret = apiSecret]

(* C20: whether a resolution is served from the cache depends on the API id
   and the time only: while the entry of an API id is unexpired, an
   initialize request with that id and any secret is bound to the cached
   token without an OAuth call, and no such request, whatever its secret,
   can start an exchange or be bound to another token. *)
C20_SecretIgnored ==
    \A id \in ApiIds :
        ( /\ id \in DOMAIN tokenCache
          /\ tokenCache[id].expiresAt > now
          /\ Len(objs) + Len(pending) < MaxTransports )
        => \A secret \in CacheSecrets :
               /\ ENABLED ( \E sid \in SessionIds :
                              /\ PostMcp(InitWith(id, secret), TRUE, sid, NoError)
                              /\ lastEvent'.status = 200
                              /\ lastEvent'.boundToken = tokenCache[id].token
                              /\ ~lastEvent'.oauthCalled
                              /\ tokenCache' = tokenCache
                              /\ pending' = pending )
               /\ ~ENABLED ( \E accept \in BOOLEAN, sid \in SessionIds :
                               /\ PostMcp(InitWith(id, secret), accept, sid, NoError)
                               /\ \/ lastEvent'.oauthCalled
                                  \/ lastEvent'.boundToken
                                         # tokenCache[id].token
                                  \/ tokenCache' # tokenCache
                                  \/ pending' # pending )

\* A request with the other secret has just been served from the cache: its
\* session and an earlier one hold the same token, from one exchange
C20_Witness ==
    /\ ResolvesByApiPair(lastEvent)
    /\ lastEvent.req.apiSecret \notin ApiSecrets
    /\ ~lastEvent.oauthCalled
    /\ lastEvent.status = 200
    /\ Len(objs) = 2
    /\ objs[1].source = "oauth"
    /\ objs[1].authToken = objs[2].authToken
    /\ DOMAIN tokenCache = {lastEvent.req.apiId}
    /\ tokenCache[lastEvent.req.apiId].token = objs[2].authToken

----------------------------------------------------------------------------
(* Closure and cleanup, session creation *)

\* The session table maps the session id of transport t to transport t
Registered(t) ==
    /\ t \in 1..Len(objs)
    /\ objs[t].sessionId \in DOMAIN transports
    /\ transports[objs[t].sessionId] = t

(* C17: a session whose transport has signalled closure is eventually not in
   the session table as that transport: its cleanup timer fires and removes
   it, or another transport has been registered under its id.  No closed
   session stays in the table forever. *)
C17_EventuallyReaped ==
    \A t \in 1..MaxTransports :
        (t \in 1..Len(objs) /\ Closed(objs[t])) ~> ~Registered(t)

\* The timer of a closed session has fired and its id is gone from the
\* table, in which another session remains
C17_Witness ==
    /\ lastEvent.op = "timer"
    /\ objs[lastEvent.transport].timer = "fired"
    /\ objs[lastEvent.transport].sessionId \notin DOMAIN transports
    /\ now = StartTime + 60000
    /\ DOMAIN transports # {}

(* C18, as claimed: a session is created only by a POST without a session id
   whose body is an initialize request and whose credentials resolve; a POST
   with a session id of the table is routed to the transport the id maps to,
   whatever its body, with no credential resolution and no new session; a
   POST with a session id that is not in the table is answered 400, an
   initialize request too. *)
C18_SessionCreation ==
    [][ LET e == lastEvent'
        IN  /\ (Len(objs') # Len(objs) \/ DOMAIN transports' # DOMAIN transports
                \/ e.created)
               => /\ e.op \in {"post", "oauthReturn", "timer"}
                  /\ e.op = "timer" => Len(objs') = Len(objs)
                  /\ e.op # "timer"
                     => /\ IsInitialization(e.req)
                        /\ e.created
                        /\ e.boundToken \notin {undefined, <<>>}
            /\ ( /\ e.op \in {"post", "tool"}
                 /\ e.req.sessionId \notin {undefined, <<>>}
                 /\ e.req.sessionId \in DOMAIN transports )
               => /\ e.transport = transports[e.req.sessionId]
                  /\ e.status \notin {400, 401}
                  /\ ~e.created
                  /\ ~e.oauthCalled
                  /\ ~e.cacheRead
                  /\ transports' = transports
                  /\ objs' = objs
                  /\ pending' = pending
                  /\ tokenCache' = tokenCache
            /\ ( /\ e.op = "post"
                 /\ e.req.sessionId \notin {undefined, <<>>}
                 /\ e.req.sessionId \notin DOMAIN transports )
               => /\ e.status = 400
                  /\ e.code = -32000
                  /\ ~e.created
                  /\ ~e.oauthCalled
                  /\ transports' = transports
                  /\ objs' = objs
                  /\ pending' = pending
                  /\ tokenCache' = tokenCache ]_vars

----------------------------------------------------------------------------
(* The Authorization header *)

(* C21: an Authorization header is a bearer credential only when it starts
   with "Bearer " and has a non-empty remainder, which is then the token of
   the session; with any other header (another scheme, "Bearer " and nothing
   after it) the request is resolved as it is without the header: by the API
   id and secret if both are there, else by the token of the body, else it is
   answered 401; a failed exchange goes on to the token of the body or to
   401; and no session is ever bound to an empty token. *)
C21_BearerHeader ==
    /\ [](\A t \in 1..Len(objs) : objs[t].authToken \notin {undefined, << >>})
    /\ [][ LET e == lastEvent'
           IN  /\ e.created => e.boundToken \notin {undefined, << >>}
               /\ (e.op = "post" /\ IsInitialization(e.req))
                  => IF CarriesBearer(e.req)
                     THEN /\ e.created
                          /\ e.boundToken = BearerCredential(e.req)
                          /\ ~e.cacheRead
                     ELSE IF CarriesApiPair(e.req)
                     THEN /\ e.cacheRead
                          /\ \/ e.oauthCalled /\ ~e.created /\ e.status = 0
                             \/ /\ e.created
                                /\ e.boundToken =
                                       tokenCache[e.req.apiId].token
                     ELSE IF CarriesBodyToken(e.req)
                     THEN /\ e.created
                          /\ e.boundToken = e.req.bodyAuth
                          /\ ~e.cacheRead
                     ELSE /\ e.status = 401
                          /\ ~e.created
                          /\ ~e.cacheRead
                          /\ transports' = transports
                          /\ objs' = objs
               /\ (e.op = "oauthReturn" /\ e.exchange = "failed")
                  => IF CarriesBodyToken(e.req)
                     THEN e.created /\ e.boundToken = e.req.bodyAuth
                     ELSE e.status = 401 /\ ~e.created ]_vars

\* A request whose header is "Bearer " and nothing else, with an empty token
\* in the body, was answered 401 while a session bound to a body token exists
C21_Witness ==
    /\ lastEvent.op = "post"
    /\ lastEvent.req.authorization = BearerPrefix
    /\ lastEvent.req.bodyAuth = << >>
    /\ lastEvent.status = 401
    /\ \E t \in 1..Len(objs) :
           objs[t].source = "body" /\ objs[t].authToken = <<"y">>

----------------------------------------------------------------------------
(* Suspension *)

\* The sequence without its i-th element
Without(seq, i) == SubSeq(seq, 1, i - 1) \o SubSeq(seq, i + 1, Len(seq))

\* An answer of the OAuth endpoint with a token
GoodToken ==
    [ thrown |-> FALSE, ok |-> TRUE,
      tokenData |-> [access_token |-> <<"o">>, expires_in |-> 3600] ]

\* While a handler is suspended, whichever it is and however long it stays
\* so, the server can still take each of these steps to completion
OthersCanProceed ==
    (calls # << >> \/ pending # << >>)
    => /\ \A sessionId \in DOMAIN transports :
              /\ ENABLED ( \E req \in HungPosts :
                             /\ req.sessionId = sessionId
                             /\ req.body = "notification"
                             /\ PostMcp(req, TRUE, sessionId, NoError)
                             /\ lastEvent'.transport = transports[sessionId]
                             /\ lastEvent'.status = 0 )
              /\ Len(calls) < MaxCalls
                 => ENABLED ( /\ Invokes(sessionId, "get_account_info",
                                         NoFields, NoError)
                              /\ lastEvent'.upstream.sent )
       /\ Len(objs) + Len(pending) < MaxTransports
          => ENABLED ( \E req \in HungPosts, sid \in SessionIds :
                         /\ PostMcp(req, TRUE, sid, NoError)
                         /\ lastEvent'.created
                         /\ lastEvent'.status = 200 )
       /\ \A i \in 1..Len(calls) :
              ENABLED ( /\ UpstreamReturn(i, GoodAnswer, NoError)
                        /\ lastEvent'.text =
                               StringifyIndented(JsonBody.parsed) )
       /\ \A i \in 1..Len(pending) :
              ENABLED ( \E sid \in SessionIds :
                          /\ OAuthReturn(i, GoodToken, TRUE, sid)
                          /\ lastEvent'.status = 200 )

(* C22: while a handler is suspended on an upstream call or on an OAuth
   exchange, which may never return, the server can still handle an
   initialize request, a request on a session and a tool invocation, and any
   other suspended handler can still resume and end; and each step leaves
   every other suspended handler as it was: a call that hangs holds back the
   operation that issued it and nothing else. *)
C22_NoBlocking ==
    /\ []OthersCanProceed
    /\ [][ /\ lastEvent'.op = "post"
              => /\ calls' = calls
                 /\ \A i \in 1..Len(pending) : pending'[i] = pending[i]
           /\ lastEvent'.op = "tool"
              => /\ pending' = pending
                 /\ \A i \in 1..Len(calls) : calls'[i] = calls[i]
           /\ lastEvent'.op = "toolReturn"
              => /\ pending' = pending
                 /\ \E i \in 1..Len(calls) : calls' = Without(calls, i)
           /\ lastEvent'.op = "oauthReturn"
              => /\ calls' = calls
                 /\ \E i \in 1..Len(pending) : pending' = Without(pending, i)
         ]_vars

\* The tool invocation of the second session has ended while the upstream
\* call of the first session, issued earlier, is still suspended
C22_Witness ==
    /\ lastEvent.op = "toolReturn"
    /\ lastEvent.transport = 2
    /\ lastEvent.text = StringifyIndented(JsonBody.parsed)
    /\ Len(calls) = 1
    /\ calls[1].transport = 1

====
